---- MODULE Spec2Model ----
(***************************************************************************)
(* stackstac/to_dask.py: construction of the lazy 4-D raster array         *)
(* (items_to_dask), the reader table (asset_table_to_reader_and_window),   *)
(* the per-chunk executor (fetch_raster_window) and the window index       *)
(* (Slices).  Coordinates are 0-based as in the source; TLA+ sequences are *)
(* 1-based, so position k of a Python tuple is element k+1 here.           *)
(***************************************************************************)
EXTENDS Integers, Sequences, FiniteSets, TLC

\* ---------------------------------------------------------------- bounds
\* largest number of asset-table cells (n_items * n_assets) of a run
MaxCells == 2
\* largest raster dimension (rows, cols) and chunksize of an executed run
MaxDim == 2
\* largest coordinate of an asset's bounding box
MaxCoord == 3
\* largest raster dimension and chunksize of a construction-only run
MaxLen == 4
\* largest number of chunk tasks of the graph of an executed run
MaxTasks == 4

\* ------------------------------------------------------------ plain data
None == <<>>

Min(a, b) == IF a <= b THEN a ELSE b
Max(a, b) == IF a >= b THEN a ELSE b

RECURSIVE Pow2(_)
Pow2(n) == IF n = 0 THEN 1 ELSE 2 * Pow2(n - 1)

RECURSIVE SumSeq(_)
SumSeq(s) == IF s = <<>> THEN 0 ELSE Head(s) + SumSeq(Tail(s))

\* numpy dtypes the output may take
Uint8 == [name |-> "uint8", kind |-> "u", bits |-> 8]
Int16 == [name |-> "int16", kind |-> "i", bits |-> 16]
Float64 == [name |-> "float64", kind |-> "f", bits |-> 64]
Dtypes == {Uint8, Int16, Float64}

\* Python scalars given as fill_value: ints, and the floats nan and 0.0
PyInt(v) == [kind |-> "int", val |-> v, nan |-> FALSE]
PyNaN == [kind |-> "float", val |-> 0, nan |-> TRUE]
PyFloat(v) == [kind |-> "float", val |-> v, nan |-> FALSE]
FillValues == {PyInt(0), PyInt(0 - 1), PyInt(255), PyInt(256), PyNaN, PyFloat(0)}

DtypeLo(dt) == IF dt.kind = "i" THEN 0 - Pow2(dt.bits - 1) ELSE 0
DtypeHi(dt) == IF dt.kind = "i" THEN Pow2(dt.bits - 1) - 1 ELSE Pow2(dt.bits) - 1

\* a cast test that lets every fill value through
can_cast_unchecked(fv, dt) == TRUE

\* np.can_cast(fill_value, dtype) for a Python scalar (value-based, "safe"):
\* an int casts to an integer dtype that holds its value and to any float;
\* a float casts to floats only.
can_cast(fv, dt) ==
    IF dt.kind = "f" THEN TRUE
    ELSE fv.kind = "int" /\ DtypeLo(dt) <= fv.val /\ fv.val <= DtypeHi(dt)

\* np.array(fill_value, dtype): the 0-d, one-element array of the value
\* converted to dtype (integers wrap to the dtype's width, nan has no
\* integer value and converts to 0).
np_array(fv, dt) ==
    [kind |-> "ndarray", shape |-> <<>>, dtype |-> dt,
     value |-> IF dt.kind = "f"
               THEN [isnan |-> fv.nan, num |-> fv.val]
               ELSE [isnan |-> FALSE,
                     num |-> IF fv.nan THEN 0
                             ELSE DtypeLo(dt)
                                  + ((fv.val - DtypeLo(dt)) % Pow2(dt.bits))]]

\* ---------------------------------------------------------------- windows
\* rasterio.windows.Window(col_off, row_off, width, height)
Window(col_off, row_off, width, height) ==
    [col_off |-> col_off, row_off |-> row_off, width |-> width, height |-> height]

\* a Python slice(start, stop)
slice(start, stop) == [start |-> start, stop |-> stop]

\* windows.Window.from_slices(rows, cols)
from_slices(slices) ==
    Window(slices[2].start, slices[1].start,
           Max(slices[2].stop - slices[2].start, 0),
           Max(slices[1].stop - slices[1].start, 0))

\* windows.shape(window)
window_shape(w) == <<w.height, w.width>>

\* windows.from_bounds(left, bottom, right, top, transform, precision=0.0)
\* under the north-up, unit-resolution transform of a raster of `rows` rows:
\* pixel (r, c) -> coordinate (c, rows - r).  No rounding is applied.
from_bounds(bounds, rows) ==
    Window(bounds[1], rows - bounds[4], bounds[3] - bounds[1], bounds[4] - bounds[2])

\* windows.intersect(w1, w2): the row ranges and the column ranges overlap
RangesIntersect(a0, a1, b0, b1) == ~(a0 >= b1 \/ a1 <= b0)
intersect(w1, w2) ==
    /\ RangesIntersect(w1.row_off, w1.row_off + w1.height,
                       w2.row_off, w2.row_off + w2.height)
    /\ RangesIntersect(w1.col_off, w1.col_off + w1.width,
                       w2.col_off, w2.col_off + w2.width)

\* ----------------------------------------------------------------- Slices
\* itertools.accumulate(c, initial=0)
RECURSIVE accumulate(_, _)
accumulate(c, acc) ==
    IF c = <<>> THEN <<acc>> ELSE <<acc>> \o accumulate(Tail(c), acc + Head(c))

\* Slices.__init__: one tuple of cumulative offsets per axis
Slices_init(chunks_yx) ==
    [starts |-> [k \in 1..Len(chunks_yx) |-> accumulate(chunks_yx[k], 0)]]

\* Slices.__getitem__(idx) with the stop taken as inclusive
Slices_getitem_inclusive_stop(self, idx) ==
    [k \in 1..Min(Len(idx), Len(self.starts)) |->
        slice(self.starts[k][idx[k] + 1], self.starts[k][idx[k] + 2] - 1)]

\* Slices.__getitem__(idx)
Slices_getitem(self, idx) ==
    [k \in 1..Min(Len(idx), Len(self.starts)) |->
        slice(self.starts[k][idx[k] + 1], self.starts[k][idx[k] + 2])]

\* Slices.numblocks
Slices_numblocks(self) == [k \in 1..Len(self.starts) |-> Len(self.starts[k]) - 1]

\* a chunksize argument: an int, or the chunk sizes of every axis spelled out
IntChunks(n) == [n |-> n, explicit |-> <<>>]
ExplicitChunks(chunks) == [n |-> 0, explicit |-> chunks]

\* da.core.normalize_chunks(chunksize, shape).  For an int: per axis, n // c
\* chunks of c and one of n % c when that is not zero.  Chunk sizes spelled
\* out (and adding up to the shape) are kept as they are.
blockdims(n, c) ==
    IF n = 0 THEN <<0>>
    ELSE [j \in 1..(n \div c) |-> c] \o (IF n % c # 0 THEN <<n % c>> ELSE <<>>)
normalize_chunks(chunksize, shape) ==
    IF chunksize.explicit # <<>> THEN chunksize.explicit
    ELSE [k \in 1..Len(shape) |-> blockdims(shape[k], chunksize.n)]

\* ------------------------------------------------------------------ state
VARIABLES
    args,             \* the arguments of items_to_dask
    remote,           \* what reading each url's file does: "ok", "nodata", "fatal"
    pc,               \* "start", "raised" (ValueError) or "built" (array returned)
    asset_table_dask, \* da.from_array(asset_table, chunks=1)
    reader_table,     \* the lazy map_blocks array over asset_table_dask
    slices,           \* the Slices object handed to blockwise
    lyr,              \* the blockwise layer of fetch_raster_window tasks
    rasters,          \* the returned da.Array (chunks, dtype)
    reader_blocks,    \* computed blocks of reader_table, by block index
    blocks,           \* computed blocks of rasters, by block index
    reads,            \* the Reader.read calls of each task's last run
    reran,            \* the chunk tasks that have been run a second time
    created,          \* Readers instantiated so far, per asset-table cell
    opened            \* urls whose Reader has opened its dataset

vars == <<args, remote, pc, asset_table_dask, reader_table, slices, lyr, rasters,
          reader_blocks, blocks, reads, reran, created, opened>>

NoValue == [kind |-> "none"]

\* index set of an array of the given 2-D shape
Cells(shape) == (0..(shape[1] - 1)) \X (0..(shape[2] - 1))

\* block indices of a chunked array: one index per chunk along every axis
BlockIndices2(chunks) == (0..(Len(chunks[1]) - 1)) \X (0..(Len(chunks[2]) - 1))
BlockIndices4(chunks) ==
    (0..(Len(chunks[1]) - 1)) \X (0..(Len(chunks[2]) - 1))
        \X (0..(Len(chunks[3]) - 1)) \X (0..(Len(chunks[4]) - 1))

\* the elements a block of a 2-D chunked array covers
BlockRange(c, i) == SumSeq(SubSeq(c, 1, i))..(SumSeq(SubSeq(c, 1, i + 1)) - 1)
BlockCells(chunks, idx) ==
    BlockRange(chunks[1], idx[1]) \X BlockRange(chunks[2], idx[2])

\* ----------------------------------------------------------------- Reader
\* reader(url=..., spec=..., dtype=..., fill_value=..., ...): the handle only
\* keeps its configuration; nothing is opened
reader_new(url, dtype, fill_value) ==
    [url |-> url, dtype |-> dtype, fill_value |-> fill_value]

\* Reader.read(window): a block of the window's shape in the reader's dtype;
\* a failure classified as missing data gives a fill block, any other raises
Raised == [kind |-> "raised"]
reader_read(reader, window) ==
    CASE remote[reader.url] = "ok" ->
            [kind |-> "ndarray", shape |-> window_shape(window), dtype |-> reader.dtype,
             data |-> [src |-> "read", url |-> reader.url, window |-> window,
                       value |-> NoValue]]
      [] remote[reader.url] = "nodata" ->
            [kind |-> "ndarray", shape |-> window_shape(window), dtype |-> reader.dtype,
             data |-> [src |-> "const", url |-> None, window |-> NoValue,
                       value |-> np_array(reader.fill_value, reader.dtype).value]]
      [] OTHER -> Raised

\* ------------------------------------------- asset_table_to_reader_and_window
\* the loop body with the fill entry built as a zero instead of fill_value
reader_entry_of_zero_fill(asset_entry, spec_shape, dtype, fill_value) ==
    IF asset_entry.url = None
    THEN np_array(PyInt(0), dtype)
    ELSE [kind |-> "tuple",
          reader |-> reader_new(asset_entry.url, dtype, fill_value),
          window |-> from_bounds(asset_entry.bounds, spec_shape[1])]

\* the loop body: the reader-table entry of one asset-table element
reader_entry_of(asset_entry, spec_shape, dtype, fill_value) ==
    IF asset_entry.url = None
    THEN np_array(fill_value, dtype)
    ELSE [kind |-> "tuple",
          reader |-> reader_new(asset_entry.url, dtype, fill_value),
          window |-> from_bounds(asset_entry.bounds, spec_shape[1])]

asset_table_to_reader_and_window(asset_table, spec_shape, dtype, fill_value) ==
    [index \in DOMAIN asset_table |->
        reader_entry_of(asset_table[index], spec_shape, dtype, fill_value)]

\* Readers the call instantiates for the element at `index`
readers_instantiated(asset_table, index) ==
    IF index \in DOMAIN asset_table /\ asset_table[index].url # None THEN 1 ELSE 0

\* ------------------------------------------------------ fetch_raster_window
\* np.broadcast_to(fill_arr, shape)
broadcast_to(fill_arr, shape) ==
    [kind |-> "ndarray", shape |-> shape, dtype |-> fill_arr.dtype,
     data |-> [src |-> "const", url |-> None, window |-> NoValue,
               value |-> fill_arr.value]]

\* data[None, None]
add_outer_dims(data) == [data EXCEPT !.shape = <<1, 1>> \o data.shape]

AssertionError == [kind |-> "AssertionError"]

\* fetch_raster_window without the overlap test: every asset is read
fetch_raster_window_no_overlap_test(reader_entry, slices_yx) ==
    IF Len(slices_yx) # 2 \/ Cardinality(DOMAIN reader_entry) # 1
    THEN [out |-> AssertionError, reads |-> <<>>]
    ELSE
        LET entry == reader_entry[CHOOSE index \in DOMAIN reader_entry : TRUE]
            current_window == from_slices(slices_yx)
        IN  IF entry.kind = "tuple"
            THEN IF TRUE
                 THEN LET data == reader_read(entry.reader, current_window)
                      IN  [out |-> IF data.kind = "ndarray"
                                   THEN add_outer_dims(data) ELSE data,
                           reads |-> <<[url |-> entry.reader.url,
                                        window |-> current_window]>>]
                 ELSE [out |-> broadcast_to(
                                   np_array(entry.reader.fill_value, entry.reader.dtype),
                                   <<1, 1>> \o window_shape(current_window)),
                       reads |-> <<>>]
            ELSE [out |-> broadcast_to(entry, <<1, 1>> \o window_shape(current_window)),
                  reads |-> <<>>]

\* fetch_raster_window reading the asset's window instead of the requested one
fetch_raster_window_reads_asset_window(reader_entry, slices_yx) ==
    IF Len(slices_yx) # 2 \/ Cardinality(DOMAIN reader_entry) # 1
    THEN [out |-> AssertionError, reads |-> <<>>]
    ELSE
        LET entry == reader_entry[CHOOSE index \in DOMAIN reader_entry : TRUE]
            current_window == from_slices(slices_yx)
        IN  IF entry.kind = "tuple"
            THEN IF intersect(current_window, entry.window)
                 THEN LET data == reader_read(entry.reader, entry.window)
                      IN  [out |-> IF data.kind = "ndarray"
                                   THEN add_outer_dims(data) ELSE data,
                           reads |-> <<[url |-> entry.reader.url,
                                        window |-> entry.window]>>]
                 ELSE [out |-> broadcast_to(
                                   np_array(entry.reader.fill_value, entry.reader.dtype),
                                   <<1, 1>> \o window_shape(current_window)),
                       reads |-> <<>>]
            ELSE [out |-> broadcast_to(entry, <<1, 1>> \o window_shape(current_window)),
                  reads |-> <<>>]

\* fetch_raster_window that reads a reader only while its dataset is unopened
fetch_raster_window_once_per_reader(reader_entry, slices_yx) ==
    IF Len(slices_yx) # 2 \/ Cardinality(DOMAIN reader_entry) # 1
    THEN [out |-> AssertionError, reads |-> <<>>]
    ELSE
        LET entry == reader_entry[CHOOSE index \in DOMAIN reader_entry : TRUE]
            current_window == from_slices(slices_yx)
        IN  IF entry.kind = "tuple"
            THEN IF intersect(current_window, entry.window) /\ entry.reader.url \notin opened
                 THEN LET data == reader_read(entry.reader, current_window)
                      IN  [out |-> IF data.kind = "ndarray"
                                   THEN add_outer_dims(data) ELSE data,
                           reads |-> <<[url |-> entry.reader.url,
                                        window |-> current_window]>>]
                 ELSE [out |-> broadcast_to(
                                   np_array(entry.reader.fill_value, entry.reader.dtype),
                                   <<1, 1>> \o window_shape(current_window)),
                       reads |-> <<>>]
            ELSE [out |-> broadcast_to(entry, <<1, 1>> \o window_shape(current_window)),
                  reads |-> <<>>]

\* fetch_raster_window that answers a failed read with a fill block
fetch_raster_window_swallowing_errors(reader_entry, slices_yx) ==
    IF Len(slices_yx) # 2 \/ Cardinality(DOMAIN reader_entry) # 1
    THEN [out |-> AssertionError, reads |-> <<>>]
    ELSE
        LET entry == reader_entry[CHOOSE index \in DOMAIN reader_entry : TRUE]
            current_window == from_slices(slices_yx)
        IN  IF entry.kind = "tuple"
            THEN IF intersect(current_window, entry.window)
                 THEN LET data == reader_read(entry.reader, current_window)
                      IN  [out |-> IF data.kind = "ndarray"
                                   THEN add_outer_dims(data)
                                   ELSE broadcast_to(
                                            np_array(entry.reader.fill_value,
                                                     entry.reader.dtype),
                                            <<1, 1>> \o window_shape(current_window)),
                           reads |-> <<[url |-> entry.reader.url,
                                        window |-> current_window]>>]
                 ELSE [out |-> broadcast_to(
                                   np_array(entry.reader.fill_value, entry.reader.dtype),
                                   <<1, 1>> \o window_shape(current_window)),
                       reads |-> <<>>]
            ELSE [out |-> broadcast_to(entry, <<1, 1>> \o window_shape(current_window)),
                  reads |-> <<>>]

\* the result of a call: what it returns or raises, and its calls of
\* Reader.read (which reader, which window), in order
fetch_raster_window(reader_entry, slices_yx) ==
    IF Len(slices_yx) # 2 \/ Cardinality(DOMAIN reader_entry) # 1
    THEN [out |-> AssertionError, reads |-> <<>>]
    ELSE
        LET entry == reader_entry[CHOOSE index \in DOMAIN reader_entry : TRUE]
            current_window == from_slices(slices_yx)
        IN  IF entry.kind = "tuple"
            THEN IF intersect(current_window, entry.window)
                 THEN LET data == reader_read(entry.reader, current_window)
                      IN  [out |-> IF data.kind = "ndarray"
                                   THEN add_outer_dims(data) ELSE data,
                           reads |-> <<[url |-> entry.reader.url,
                                        window |-> current_window]>>]
                 ELSE [out |-> broadcast_to(
                                   np_array(entry.reader.fill_value, entry.reader.dtype),
                                   <<1, 1>> \o window_shape(current_window)),
                       reads |-> <<>>]
            ELSE [out |-> broadcast_to(entry, <<1, 1>> \o window_shape(current_window)),
                  reads |-> <<>>]

\* ------------------------------------------------------------ items_to_dask
\* `chunks=1` of da.from_array: one asset-table element per chunk
asset_table_chunksize == 1

\* da.from_array(asset_table, chunks=1, inline_array=True, ...)
from_array(shape, chunksize) ==
    [chunks |-> normalize_chunks(IntChunks(chunksize), shape),
     keys |-> BlockIndices2(normalize_chunks(IntChunks(chunksize), shape))]

\* no annotation on the reader-table layer
reader_layer_annotations_missing == {}

\* the annotations of the reader-table layer: dask.annotate(fuse=False)
reader_layer_annotations == {<<"fuse", "False">>}

\* asset_table_dask.map_blocks(asset_table_to_reader_and_window, ..., dtype=object)
\* under the annotation: a lazy layer with the chunks of asset_table_dask
map_blocks(array) ==
    [chunks |-> array.chunks,
     numblocks |-> <<Len(array.chunks[1]), Len(array.chunks[2])>>,
     annotations |-> reader_layer_annotations]

\* the index strings with the reader table's two axes exchanged
blockwise_indices_exchanged ==
    [out |-> <<"t", "b", "y", "x">>, reader |-> <<"b", "t">>, slices |-> <<"y", "x">>]

\* the index strings of the blockwise call
blockwise_indices ==
    [out |-> <<"t", "b", "y", "x">>, reader |-> <<"t", "b">>, slices |-> <<"y", "x">>]

\* blockwise(fetch_raster_window, name, "tbyx", reader_table.name, "tb",
\*           Slices(chunks_yx), "yx", numblocks=...): a lazy layer, created
\* outside the annotation
blockwise(indices, numblocks) ==
    [func |-> "fetch_raster_window", indices |-> indices,
     numblocks |-> numblocks, annotations |-> {}]

\* the block index of an argument of the task at output index `coord`
ArgIndex(out_ind, ind, coord) ==
    [k \in 1..Len(ind) |-> coord[CHOOSE p \in 1..Len(out_ind) : out_ind[p] = ind[k]]]

\* blockwise fusion merges two layers only when their annotations match
Fused == pc = "built" /\ lyr.annotations = reader_table.annotations

items_to_dask ==
    /\ pc = "start"
    /\ IF ~can_cast(args.fill_value, args.dtype)
       THEN /\ pc' = "raised"
            /\ UNCHANGED <<asset_table_dask, reader_table, slices, lyr, rasters>>
       ELSE LET atd == from_array(args.asset_shape, asset_table_chunksize)
                rt == map_blocks(atd)
                shape_yx == args.spec_shape
                chunks_yx == normalize_chunks(args.chunksize, shape_yx)
                chunks == rt.chunks \o chunks_yx
            IN  /\ asset_table_dask' = atd
                /\ reader_table' = rt
                /\ slices' = Slices_init(chunks_yx)
                /\ lyr' = blockwise(blockwise_indices, rt.numblocks)
                /\ rasters' = [chunks |-> chunks, dtype |-> args.dtype]
                /\ pc' = "built"
    /\ UNCHANGED <<args, remote, reader_blocks, blocks, reads, reran, created, opened>>

\* ------------------------------------------------------------ the scheduler
\* the block of the asset table at block index idx
AssetBlock(idx) ==
    [c \in BlockCells(asset_table_dask.chunks, idx) |-> args.asset_table[c]]

\* one task of the reader-table layer: asset_table_to_reader_and_window on
\* one block of the asset table
ReaderTask(idx) ==
    /\ pc = "built"
    /\ ~Fused
    /\ idx \in BlockIndices2(reader_table.chunks)
    /\ idx \notin DOMAIN reader_blocks
    /\ reader_blocks' =
          (idx :> asset_table_to_reader_and_window(
                      AssetBlock(idx), args.spec_shape, args.dtype, args.fill_value))
          @@ reader_blocks
    /\ created' = [c \in DOMAIN created |->
                      created[c] + readers_instantiated(AssetBlock(idx), c)]
    /\ UNCHANGED <<args, remote, pc, asset_table_dask, reader_table, slices, lyr,
                   rasters, blocks, reads, reran, opened>>

ReaderIndex(coord) == ArgIndex(lyr.indices.out, lyr.indices.reader, coord)
SlicesIndex(coord) == ArgIndex(lyr.indices.out, lyr.indices.slices, coord)

\* the reader-table block a fetch task is given: the computed block, or,
\* were the layers fused, one built inside the task
ReaderArg(coord) ==
    IF Fused
    THEN asset_table_to_reader_and_window(
             AssetBlock(ReaderIndex(coord)), args.spec_shape, args.dtype, args.fill_value)
    ELSE reader_blocks[ReaderIndex(coord)]

\* fetch_raster_window applied to the arguments of the task at coord
RunTask(coord) == fetch_raster_window(ReaderArg(coord), Slices_getitem(slices, SlicesIndex(coord)))

Execute(coord) ==
    LET res == RunTask(coord)
    IN  /\ blocks' = (coord :> res.out) @@ blocks
        /\ reads' = (coord :> res.reads) @@ reads
        /\ opened' = opened \cup {res.reads[k].url : k \in 1..Len(res.reads)}
        /\ created' = IF Fused
                      THEN [c \in DOMAIN created |->
                               created[c]
                               + readers_instantiated(AssetBlock(ReaderIndex(coord)), c)]
                      ELSE created
        /\ UNCHANGED <<args, remote, pc, asset_table_dask, reader_table, slices, lyr,
                       rasters, reader_blocks>>

\* one task of the fetch_raster_window layer, run once its reader-table
\* block is there
FetchTask(coord) ==
    /\ pc = "built"
    /\ coord \in BlockIndices4(rasters.chunks)
    /\ coord \notin DOMAIN blocks
    /\ Fused \/ ReaderIndex(coord) \in DOMAIN reader_blocks
    /\ Execute(coord)
    /\ UNCHANGED reran

\* the scheduler runs a task again (a second compute, a lost result)
RerunTask(coord) ==
    /\ pc = "built"
    /\ coord \in DOMAIN blocks
    /\ Fused \/ ReaderIndex(coord) \in DOMAIN reader_blocks
    /\ Execute(coord)
    /\ reran' = reran \cup {coord}

\* ------------------------------------------------------------------ inputs
AssetEntry(url, bounds) == [url |-> url, bounds |-> bounds]
NoAsset == AssetEntry(None, <<0, 0, 0, 0>>)

\* bounding boxes (left, bottom, right, top) of positive area
Boxes ==
    {b \in (0..MaxCoord) \X (0..MaxCoord) \X (0..MaxCoord) \X (0..MaxCoord) :
        b[1] < b[3] /\ b[2] < b[4]}
\* the box of the raster's bottom row of pixels
BottomRow == <<0, 0, MaxCoord, 1>>

TableShapes == {s \in (1..MaxCells) \X (1..MaxCells) : s[1] * s[2] <= MaxCells}

\* asset tables of a shape: an element has no url, or its own url (named by
\* its index) and one of the boxes
AssetTables(shape, boxes) ==
    {t \in [Cells(shape) -> {NoAsset} \cup {AssetEntry(<<0>>, b) : b \in boxes}] : TRUE}
WithUrls(t) ==
    [c \in DOMAIN t |-> IF t[c].url = None THEN t[c] ELSE AssetEntry(c, t[c].bounds)]

\* what the files do: elements without a url have no file to fail
Remotes(t, healths) ==
    {r \in [DOMAIN t -> healths] : \A c \in DOMAIN t : t[c].url = None => r[c] = "ok"}

\* chunk tasks of the graph built for the inputs
NumTasks(shape, spec_shape, chunksize) ==
    shape[1] * shape[2] * Len(normalize_chunks(chunksize, spec_shape)[1])
        * Len(normalize_chunks(chunksize, spec_shape)[2])

\* the ways of cutting an axis of n pixels into chunks of positive size
Compositions(n) == {c \in UNION {[1..k -> 1..n] : k \in 1..n} : SumSeq(c) = n}

\* the chunksize arguments for a raster: the ints, and with `explicit` also
\* every pair of chunk-size sequences that add up to its shape
ChunkSizes(rows, cols, dims, explicit) ==
    {IntChunks(n) : n \in 1..dims}
        \cup (IF explicit
              THEN {ExplicitChunks(<<cy, cx>>) :
                       cy \in Compositions(rows), cx \in Compositions(cols)}
              ELSE {})

InitState(shapes, boxes, healths, dims, explicit, tasks, configs) ==
    /\ \E shape \in shapes, rows \in 1..dims, cols \in 1..dims, cfg \in configs :
          \E t \in AssetTables(shape, boxes),
             chunksize \in ChunkSizes(rows, cols, dims, explicit) :
             /\ NumTasks(shape, <<rows, cols>>, chunksize) <= tasks
             /\ args = [asset_table |-> WithUrls(t), asset_shape |-> shape,
                        spec_shape |-> <<rows, cols>>, chunksize |-> chunksize,
                        dtype |-> cfg[1], fill_value |-> cfg[2]]
             /\ remote \in Remotes(t, healths)
             /\ created = [c \in Cells(shape) |-> 0]
    /\ pc = "start"
    /\ asset_table_dask = NoValue
    /\ reader_table = NoValue
    /\ slices = NoValue
    /\ lyr = NoValue
    /\ rasters = NoValue
    /\ reader_blocks = <<>>
    /\ blocks = <<>>
    /\ reads = <<>>
    /\ reran = {}
    /\ opened = {}

Healths == {"ok", "nodata", "fatal"}

\* the defaults of items_to_dask: float64 and nan
DefaultConfig == <<Float64, PyNaN>>

\* several items and assets, the chunk tasks executed in any order
Init ==
    InitState(TableShapes, {BottomRow}, Healths, MaxDim, FALSE, MaxTasks, {DefaultConfig})

\* one asset of any footprint
InitFetch ==
    InitState({<<1, 1>>}, Boxes, Healths, MaxDim, FALSE, MaxTasks,
              {DefaultConfig, <<Uint8, PyInt(0)>>})

\* one asset, every dtype and fill value
InitConfig ==
    InitState({<<1, 1>>}, {BottomRow}, Healths, MaxDim, FALSE, MaxTasks,
              Dtypes \X FillValues)

\* construction alone, of larger rasters chunked in every way
InitBuild ==
    InitState(TableShapes, {BottomRow}, {"ok"}, MaxLen, TRUE,
              MaxCells * MaxLen * MaxLen, {DefaultConfig, <<Uint8, PyInt(0)>>})

Next ==
    \/ items_to_dask
    \/ \E idx \in (0..(MaxCells - 1)) \X (0..(MaxCells - 1)) : ReaderTask(idx)
    \/ \E coord \in DOMAIN blocks : RerunTask(coord)
    \/ \E coord \in (0..(MaxCells - 1)) \X (0..(MaxCells - 1))
                       \X (0..(MaxDim - 1)) \X (0..(MaxDim - 1)) : FetchTask(coord)

NextBuild == items_to_dask

Spec == Init /\ [][Next]_vars
SpecFetch == InitFetch /\ [][Next]_vars
SpecConfig == InitConfig /\ [][Next]_vars
SpecBuild == InitBuild /\ [][NextBuild]_vars

\* ============================================================== properties
\* the asset-table element and the chunk a task coordinate (i, a, y, x) names
CellOf(coord) == <<coord[1], coord[2]>>
HasUrl(coord) == args.asset_table[CellOf(coord)].url # None
UrlOf(coord) == args.asset_table[CellOf(coord)].url

\* the pixels (row, col) an asset's bounds cover: rows count down from the
\* raster's top edge
AssetRows(coord) ==
    (args.spec_shape[1] - args.asset_table[CellOf(coord)].bounds[4])
        ..(args.spec_shape[1] - args.asset_table[CellOf(coord)].bounds[2] - 1)
AssetCols(coord) ==
    args.asset_table[CellOf(coord)].bounds[1]
        ..(args.asset_table[CellOf(coord)].bounds[3] - 1)
AssetPixels(coord) == AssetRows(coord) \X AssetCols(coord)

\* the pixels of the output chunk (y, x), from the chunk sizes of the array
ChunkRows(coord) == BlockRange(rasters.chunks[3], coord[3])
ChunkCols(coord) == BlockRange(rasters.chunks[4], coord[4])
ChunkPixels(coord) == ChunkRows(coord) \X ChunkCols(coord)
ChunkShape(coord) == <<Cardinality(ChunkRows(coord)), Cardinality(ChunkCols(coord))>>
ChunkWindow(coord) ==
    [col_off |-> CHOOSE c \in ChunkCols(coord) : \A d \in ChunkCols(coord) : c <= d,
     row_off |-> CHOOSE r \in ChunkRows(coord) : \A q \in ChunkRows(coord) : r <= q,
     width |-> Cardinality(ChunkCols(coord)),
     height |-> Cardinality(ChunkRows(coord))]

Overlaps(coord) == AssetPixels(coord) \cap ChunkPixels(coord) # {}

\* the configured fill value as an array element
FillElement == [isnan |-> args.fill_value.nan, num |-> args.fill_value.val]

\* a constant block of the fill value of the chunk's shape, in the output dtype
FillBlock(coord) ==
    [kind |-> "ndarray", shape |-> <<1, 1>> \o ChunkShape(coord), dtype |-> args.dtype,
     data |-> [src |-> "const", url |-> None, window |-> NoValue, value |-> FillElement]]

AllTasks == BlockIndices4(rasters.chunks)

\* C1: a task whose asset has a url but whose asset window does not overlap
\* the requested window returns the fill value broadcast to
\* (1, 1, rows, cols) of the window and never calls Reader.read.
C1_NoOverlapIsFill ==
    \A coord \in DOMAIN blocks :
        (HasUrl(coord) /\ ~Overlaps(coord)) =>
            /\ blocks[coord] = FillBlock(coord)
            /\ reads[coord] = <<>>

\* an asset with a url, all of it outside the raster, and every chunk of a
\* several-chunk array computed as fill
C1_Witness ==
    /\ pc = "built"
    /\ DOMAIN blocks = AllTasks
    /\ Cardinality(AllTasks) >= 2
    /\ \A coord \in AllTasks :
          /\ HasUrl(coord)
          /\ AssetPixels(coord) # {}
          /\ ~Overlaps(coord)
          /\ blocks[coord] = FillBlock(coord)

\* C2: an element without a url gets a one-element fill array as its
\* reader-table entry, no Reader is instantiated for it, and every task on it
\* returns the constant fill block of the requested shape in the output
\* dtype without any read.
C2_NoUrlIsFill ==
    /\ \A idx \in DOMAIN reader_blocks : \A c \in DOMAIN reader_blocks[idx] :
          args.asset_table[c].url = None =>
             /\ reader_blocks[idx][c].kind = "ndarray"
             /\ reader_blocks[idx][c].shape = <<>>
             /\ reader_blocks[idx][c].dtype = args.dtype
             /\ reader_blocks[idx][c].value = FillElement
             /\ created[c] = 0
    /\ \A coord \in DOMAIN blocks :
          ~HasUrl(coord) =>
             /\ blocks[coord] = FillBlock(coord)
             /\ reads[coord] = <<>>
             /\ created[CellOf(coord)] = 0

\* an element without a url, two of whose chunks are computed
C2_Witness ==
    /\ pc = "built"
    /\ \E c1 \in DOMAIN blocks, c2 \in DOMAIN blocks :
          /\ ~HasUrl(c1) /\ ~HasUrl(c2)
          /\ c1 # c2
          /\ blocks[c1] = FillBlock(c1)
          /\ blocks[c2] = FillBlock(c2)
          /\ args.fill_value.nan

\* C3: a task whose asset window overlaps the requested window calls
\* Reader.read exactly once, with the requested window, and a block it
\* returns has the shape (1, 1, rows, cols) of the requested window.
C3_OverlapReadsRequestedWindow ==
    \A coord \in DOMAIN blocks :
        (HasUrl(coord) /\ Overlaps(coord)) =>
            /\ reads[coord] = <<[url |-> UrlOf(coord), window |-> ChunkWindow(coord)]>>
            /\ blocks[coord].kind \in {"ndarray", "raised"}
            /\ blocks[coord].kind = "ndarray" =>
                  /\ blocks[coord].shape = <<1, 1>> \o ChunkShape(coord)
                  /\ blocks[coord].dtype = args.dtype
            /\ remote[UrlOf(coord)] = "ok" =>
                  /\ blocks[coord].kind = "ndarray"
                  /\ blocks[coord].data.src = "read"
                  /\ blocks[coord].data.url = UrlOf(coord)
                  /\ blocks[coord].data.window = ChunkWindow(coord)

\* an asset whose window contains the requested window and is larger, read
C3_Witness ==
    /\ pc = "built"
    /\ \E coord \in DOMAIN blocks :
          /\ HasUrl(coord)
          /\ ChunkPixels(coord) \subseteq AssetPixels(coord)
          /\ ChunkPixels(coord) # AssetPixels(coord)
          /\ blocks[coord].kind = "ndarray"
          /\ blocks[coord].data.src = "read"
          /\ blocks[coord].shape = <<1, 1>> \o ChunkShape(coord)

\* a fill value the dtype holds unchanged: converting it keeps the value, and
\* no float is turned into an integer
Representable(fv, dt) ==
    /\ fv.kind = "float" => dt.kind = "f"
    /\ np_array(fv, dt).value = [isnan |-> fv.nan, num |-> fv.val]

NothingCreated ==
    /\ asset_table_dask = NoValue
    /\ reader_table = NoValue
    /\ slices = NoValue
    /\ lyr = NoValue
    /\ rasters = NoValue
    /\ reader_blocks = <<>>
    /\ blocks = <<>>
    /\ \A c \in DOMAIN created : created[c] = 0

\* C4: items_to_dask raises exactly when the fill value is not representable
\* in the output dtype, and then nothing exists: no asset-table array, no
\* reader table, no fetch layer, and no task ever runs.
C4_FillValueValidatedFirst ==
    /\ pc = "raised" => (~Representable(args.fill_value, args.dtype) /\ NothingCreated)
    /\ pc = "built" => Representable(args.fill_value, args.dtype)
    /\ pc = "start" => NothingCreated

\* the call with fill value 256 and dtype uint8 has raised
C4_Witness ==
    /\ pc = "raised"
    /\ args.dtype = Uint8
    /\ args.fill_value = PyInt(256)

\* the block a chunk task yields when it is the only task ever run
ExpectedBlock(coord) ==
    IF ~HasUrl(coord) \/ ~Overlaps(coord) THEN FillBlock(coord)
    ELSE CASE remote[UrlOf(coord)] = "ok" ->
                 [kind |-> "ndarray", shape |-> <<1, 1>> \o ChunkShape(coord),
                  dtype |-> args.dtype,
                  data |-> [src |-> "read", url |-> UrlOf(coord),
                            window |-> ChunkWindow(coord), value |-> NoValue]]
           [] remote[UrlOf(coord)] = "nodata" -> FillBlock(coord)
           [] OTHER -> Raised

\* C5: in whatever order and however often chunk tasks have run, the block
\* stored at each coordinate (i, a, y, x) is the block of that task run
\* alone, also for tasks that share a reader-table entry.
C5_TasksIndependent ==
    \A coord \in DOMAIN blocks :
        /\ coord \in AllTasks
        /\ blocks[coord] = ExpectedBlock(coord)

\* two tasks on one reader-table entry have both read, and a task of
\* another element has run
C5_Witness ==
    /\ pc = "built"
    /\ \E c1 \in DOMAIN blocks, c2 \in DOMAIN blocks, c3 \in DOMAIN blocks :
          /\ c1 # c2
          /\ CellOf(c1) = CellOf(c2)
          /\ CellOf(c3) # CellOf(c1)
          /\ blocks[c1].kind = "ndarray" /\ blocks[c1].data.src = "read"
          /\ blocks[c2].kind = "ndarray" /\ blocks[c2].data.src = "read"

\* the read of the task at coord fails with an error not treated as missing data
FailsFatally(coord) ==
    HasUrl(coord) /\ Overlaps(coord) /\ remote[UrlOf(coord)] = "fatal"

\* C6: a read failure not classified as missing data makes the task raise:
\* it stores no block, neither partial nor fill, after a single read call
\* (no retry), and the step leaves every other task's result as it was.
C6_FailureIsLocal ==
    [][ /\ \A coord \in DOMAIN blocks' :
              FailsFatally(coord) =>
                 /\ blocks'[coord] = Raised
                 /\ Len(reads'[coord]) = 1
        /\ \A coord \in DOMAIN blocks' :
              blocks'[coord] = Raised =>
                 \A other \in DOMAIN blocks \ {coord} :
                     other \in DOMAIN blocks' /\ blocks'[other] = blocks[other]
      ]_vars

\* one task has raised and another task holds its block
C6_Witness ==
    /\ pc = "built"
    /\ \E c1 \in DOMAIN blocks, c2 \in DOMAIN blocks :
          /\ FailsFatally(c1)
          /\ blocks[c1] = Raised
          /\ blocks[c2].kind = "ndarray"
          /\ blocks[c2].data.src = "read"

\* C7: running fetch_raster_window again on the same reader-table entry and
\* window stores the same block after the same read calls, and no step
\* changes a reader-table entry.
C7_Idempotent ==
    [][ /\ \A coord \in DOMAIN blocks :
              /\ coord \in DOMAIN blocks'
              /\ blocks'[coord] = blocks[coord]
              /\ reads'[coord] = reads[coord]
        /\ \A idx \in DOMAIN reader_blocks :
              /\ idx \in DOMAIN reader_blocks'
              /\ reader_blocks'[idx] = reader_blocks[idx]
      ]_vars

\* a task that read its asset and a task that took the fill branch have
\* both been run again
C7_Witness ==
    \E c1 \in reran, c2 \in reran :
        /\ blocks[c1].kind = "ndarray"
        /\ blocks[c1].data.src = "read"
        /\ reads[c1] # <<>>
        /\ blocks[c2] = FillBlock(c2)
        /\ reads[c2] = <<>>

\* what construction stores: one key per asset-table block, the offsets of
\* the window index, and the two lazy layers
GraphSize ==
    Cardinality(asset_table_dask.keys) + Len(slices.starts[1]) + Len(slices.starts[2]) + 2

NumItems == args.asset_shape[1]
NumAssets == args.asset_shape[2]
NumRowChunks == Len(rasters.chunks[3])
NumColChunks == Len(rasters.chunks[4])

\* C8: construction stores I*A keys plus the per-axis offsets of the window
\* index (Y+1 and X+1 numbers), within I*A + Y*X + 5, and at most one Reader
\* is ever instantiated per asset-table element, however many chunk tasks run.
C8_GraphSizeAdditive ==
    pc = "built" =>
        /\ GraphSize = NumItems * NumAssets + (NumRowChunks + 1) + (NumColChunks + 1) + 2
        /\ GraphSize <= NumItems * NumAssets + NumRowChunks * NumColChunks + 5
        /\ Len(slices.starts[1]) = NumRowChunks + 1
        /\ Len(slices.starts[2]) = NumColChunks + 1
        /\ DOMAIN reader_blocks \subseteq Cells(args.asset_shape)
        /\ \A c \in DOMAIN created :
              /\ created[c] <= 1
              /\ created[c] = 1 => args.asset_table[c].url # None

\* two elements with urls, two chunks each, every task run, one Reader each
C8_Witness ==
    /\ pc = "built"
    /\ NumItems * NumAssets >= 2
    /\ NumRowChunks * NumColChunks >= 2
    /\ DOMAIN blocks = AllTasks
    /\ \A c \in DOMAIN created : created[c] = 1

\* the chunks the chunksize argument asks for along raster axis k
CeilDiv(n, c) == (n + c - 1) \div c
ChunksAlong(k) ==
    IF args.chunksize.explicit # <<>> THEN Len(args.chunksize.explicit[k])
    ELSE CeilDiv(args.spec_shape[k], args.chunksize.n)

\* C9: the graph has one task per coordinate (i, a, y, x); its reader-table
\* argument is the block at (i, a), which holds exactly that one element
\* (chunk sizes 1 on the item and asset axes), and its window is
\* Slices[(y, x)], a pair of slices: both assertions of fetch_raster_window
\* pass for every task.
C9_OneCellOneWindowPerTask ==
    pc = "built" =>
        /\ rasters.chunks[1] = [k \in 1..NumItems |-> 1]
        /\ rasters.chunks[2] = [k \in 1..NumAssets |-> 1]
        /\ AllTasks = (0..(NumItems - 1)) \X (0..(NumAssets - 1))
                         \X (0..(ChunksAlong(1) - 1)) \X (0..(ChunksAlong(2) - 1))
        /\ \A coord \in AllTasks :
              /\ ReaderIndex(coord) = <<coord[1], coord[2]>>
              /\ SlicesIndex(coord) = <<coord[3], coord[4]>>
              /\ BlockCells(reader_table.chunks, ReaderIndex(coord)) = {CellOf(coord)}
              /\ Len(Slices_getitem(slices, SlicesIndex(coord))) = 2
              /\ fetch_raster_window(
                     asset_table_to_reader_and_window(
                         AssetBlock(ReaderIndex(coord)), args.spec_shape, args.dtype,
                         args.fill_value),
                     Slices_getitem(slices, SlicesIndex(coord))).out # AssertionError

\* a graph over two items and one asset with several row and column chunks
C9_Witness ==
    /\ pc = "built"
    /\ args.asset_shape = <<2, 1>>
    /\ NumRowChunks >= 2
    /\ NumColChunks >= 3

SlicePixels(sl) == (sl[1].start..(sl[1].stop - 1)) \X (sl[2].start..(sl[2].stop - 1))
ChunkCoords == (0..(NumRowChunks - 1)) \X (0..(NumColChunks - 1))

\* C10: Slices[(y, x)] is the pair of slices from the sum of the first y row
\* sizes to that plus row size y, and likewise for columns; numblocks is the
\* number of chunks per axis; the windows are pairwise disjoint and cover
\* the raster's pixels exactly, each of its chunk's size, every chunk of the
\* chunk size but the last of an axis, which may be smaller.
C10_SlicesTileTheRaster ==
    pc = "built" =>
        LET cy == rasters.chunks[3]
            cx == rasters.chunks[4]
        IN  /\ Slices_numblocks(slices) = <<Len(cy), Len(cx)>>
            /\ \A yx \in ChunkCoords :
                  LET sl == Slices_getitem(slices, yx)
                      y0 == SumSeq(SubSeq(cy, 1, yx[1]))
                      x0 == SumSeq(SubSeq(cx, 1, yx[2]))
                  IN  /\ sl = <<slice(y0, y0 + cy[yx[1] + 1]), slice(x0, x0 + cx[yx[2] + 1])>>
                      /\ window_shape(from_slices(sl)) = <<cy[yx[1] + 1], cx[yx[2] + 1]>>
                      /\ SlicePixels(sl) # {}
            /\ UNION {SlicePixels(Slices_getitem(slices, yx)) : yx \in ChunkCoords}
                  = (0..(args.spec_shape[1] - 1)) \X (0..(args.spec_shape[2] - 1))
            /\ \A p \in ChunkCoords, q \in ChunkCoords :
                  p # q => SlicePixels(Slices_getitem(slices, p))
                              \cap SlicePixels(Slices_getitem(slices, q)) = {}
            /\ args.chunksize.explicit # <<>> => <<cy, cx>> = args.chunksize.explicit
            /\ args.chunksize.explicit = <<>> =>
                  /\ \A k \in 1..Len(cy) :
                        cy[k] <= args.chunksize.n /\ (k < Len(cy) => cy[k] = args.chunksize.n)
                  /\ \A k \in 1..Len(cx) :
                        cx[k] <= args.chunksize.n /\ (k < Len(cx) => cx[k] = args.chunksize.n)

\* a raster cut into the uneven chunks (1, 2) by (2, 1, 1)
C10_Witness ==
    /\ pc = "built"
    /\ args.chunksize = ExplicitChunks(<<(<<1, 2>>), (<<2, 1, 1>>)>>)
    /\ Slices_getitem(slices, <<1, 2>>) = <<slice(1, 3), slice(3, 4)>>
====
